---- MODULE Spec2Model ----
(***************************************************************************)
(* Model of src/data_loading/active_vision_dataset.py: the AVD class, an   *)
(* indexable view of (image, target) pairs over a directory tree of scene  *)
(* folders.  Strings are sequences of one-character strings so that        *)
(* indexing, slicing, concatenation and comparison are computed as Python  *)
(* computes them.  The directory tree under root is read-only state.       *)
(***************************************************************************)
EXTENDS Integers, Sequences, FiniteSets, TLC

VARIABLES fs, pc, scene_list, train, transform, target_transform,
          classification, image_names, listdir_calls, result, calls,
          length, prev

vars == <<fs, pc, scene_list, train, transform, target_transform,
          classification, image_names, listdir_calls, result, calls,
          length, prev>>

(* ---------------------------- bounds ----------------------------------- *)
\* longest explicit scene_list argument that construction is tried with
MaxSceneListLen == 2
\* how far beyond -len and len-1 the index argument of item access ranges
IndexSlack == 1

(* ------------------------- Python values ------------------------------- *)
None == "None"

\* code points of the characters that occur in the image names
CharCode ==
  [c \in {"0","1","2","3","4","5"} |->
     CASE c = "0" -> 48 [] c = "1" -> 49 [] c = "2" -> 50 [] c = "3" -> 51
       [] c = "4" -> 52 [] c = "5" -> 53]

Min(a, b) == IF a <= b THEN a ELSE b
Max(a, b) == IF a >= b THEN a ELSE b

\* the (start, stop) pair Python computes for the slice a:b of a sequence of
\* length n: negative bounds count from the end, then both are clamped
SliceIndices(a, b, n) ==
  LET lo == IF a < 0 THEN Max(a + n, 0) ELSE Min(a, n)
      hi == IF b < 0 THEN Max(b + n, 0) ELSE Min(b, n)
  IN  <<lo, hi>>

\* s[a:b] for a string or list s (0-indexed, half-open, never raises)
PySlice(s, a, b) ==
  LET ix == SliceIndices(a, b, Len(s))
  IN  IF ix[1] >= ix[2] THEN <<>> ELSE SubSeq(s, ix[1] + 1, ix[2])

\* a variant that rejects negative indices
PyIndexOkNonNegative(s, i) == i >= 0 /\ i < Len(s)

\* s[i] succeeds exactly for -len <= i < len
PyIndexOk(s, i) == i >= -Len(s) /\ i < Len(s)

\* s[i] for an index PyIndexOk accepts: a negative index counts from the end
PyIndex(s, i) == IF i < 0 THEN s[Len(s) + i + 1] ELSE s[i + 1]

\* a < b for two strings: Python compares code point by code point, and a
\* proper prefix is smaller
RECURSIVE StrLess(_, _)
StrLess(a, b) ==
  IF b = <<>> THEN FALSE
  ELSE IF a = <<>> THEN TRUE
  ELSE IF CharCode[Head(a)] # CharCode[Head(b)]
       THEN CharCode[Head(a)] < CharCode[Head(b)]
       ELSE StrLess(Tail(a), Tail(b))

RECURSIVE InsertSorted(_, _)
InsertSorted(x, s) ==
  IF s = <<>> THEN <<x>>
  ELSE IF StrLess(x, Head(s)) THEN <<x>> \o s
       ELSE <<Head(s)>> \o InsertSorted(x, Tail(s))

\* a variant that leaves the list as it was gathered
ListSortSkipped(s) == s

\* list.sort() on a list of strings: ascending, equal names kept
RECURSIVE ListSort(_)
ListSort(s) ==
  IF s = <<>> THEN <<>>
  ELSE InsertSorted(s[Len(s)], ListSort(SubSeq(s, 1, Len(s) - 1)))

\* a variant that keeps only the last list (assignment instead of extend)
ConcatLast(ss) == IF ss = <<>> THEN <<>> ELSE ss[Len(ss)]

RECURSIVE Concat(_)
Concat(ss) == IF ss = <<>> THEN <<>> ELSE Head(ss) \o Concat(Tail(ss))

(* -------------------------- scene names -------------------------------- *)
Home == <<"H","o","m","e">>
Office == <<"O","f","f","i","c","e">>
Scene(type, id, k) == type \o <<"_">> \o id \o <<"_">> \o <<k>>

Home_001_1 == Scene(Home, <<"0","0","1">>, "1")
Home_001_2 == Scene(Home, <<"0","0","1">>, "2")
Home_002_1 == Scene(Home, <<"0","0","2">>, "1")
Home_003_1 == Scene(Home, <<"0","0","3">>, "1")
Home_003_2 == Scene(Home, <<"0","0","3">>, "2")
Home_004_1 == Scene(Home, <<"0","0","4">>, "1")
Home_004_2 == Scene(Home, <<"0","0","4">>, "2")
Home_005_1 == Scene(Home, <<"0","0","5">>, "1")
Home_005_2 == Scene(Home, <<"0","0","5">>, "2")
Home_006_1 == Scene(Home, <<"0","0","6">>, "1")
Home_008_1 == Scene(Home, <<"0","0","8">>, "1")
Home_014_1 == Scene(Home, <<"0","1","4">>, "1")
Home_014_2 == Scene(Home, <<"0","1","4">>, "2")
Office_001_1 == Scene(Office, <<"0","0","1">>, "1")
Home_420_0 == Scene(Home, <<"4","2","0">>, "0")
Office_420_0 == Scene(Office, <<"4","2","0">>, "0")

default_train_list ==
  <<Home_002_1, Home_003_1, Home_003_2, Home_004_1, Home_004_2, Home_005_1,
    Home_005_2, Home_006_1, Home_014_1, Home_014_2, Office_001_1>>

default_test_list == <<Home_001_1, Home_001_2, Home_008_1>>

Range(s) == {s[i] : i \in 1..Len(s)}

(* ----------------------- the tree under root --------------------------- *)
\* image file names that occur in the image subdirectories
nA == <<"0","4","2","0","0","1","2","3","4","5">>
nB == <<"0","4","2","0","0","5","4","3","2","1">>
nC == <<"1","4","2","0","0","1","2","3","4","5">>
nD == <<"2","4","2","0","0","1","2","3","4","5">>
nE == <<"2","0","0","1","1","1","2","3","4","5">>
nF == <<"1","0","0","1","1","0","0","0","0","1">>
nG == <<"0","0","0","1","1","0","0","0","0","1">>
nS == <<"0","4","2","0">>

\* bounding-box lists stored under 'bounding_boxes'
BoxesTwo == << <<10, 20, 50, 60, 3>>, <<0, 0, 5, 5, 7>> >>
BoxesLong == << <<2, 1, 4, 3, 9, 0>> >>
BoxesShort == << <<1, 1, 2, 2>> >>
BoxesNone == <<>>

\* decoded size (height, width, channels) of the stored images
BigImage == <<64, 64, 3>>
SmallImage == <<30, 40, 3>>

\* one scene of the tree: what os.path.isdir / isfile answer for the scene
\* directory, its jpg_rgb subdirectory and its annotations.json, the
\* entries of jpg_rgb with their decoded size, and the parsed annotations
\* as a mapping from image name to its 'bounding_boxes'
SceneDir(d, i, a, imgs, ann) ==
  [scene_dir |-> d, images_dir |-> i, ann_file |-> a,
   images |-> imgs, annotations |-> ann]

NoFiles == [n \in {} |-> BigImage]
NoAnnotations == [n \in {} |-> BoxesNone]
AbsentScene == SceneDir(FALSE, FALSE, FALSE, NoFiles, NoAnnotations)

HomeProfiles ==
  { AbsentScene,
    SceneDir(TRUE, FALSE, TRUE, NoFiles, NoAnnotations),
    SceneDir(TRUE, TRUE, FALSE, [n \in {nA} |-> BigImage], NoAnnotations),
    SceneDir(TRUE, TRUE, TRUE, NoFiles, NoAnnotations),
    SceneDir(TRUE, TRUE, TRUE,
             [n \in {nA, nB} |-> IF n = nA THEN BigImage ELSE SmallImage],
             [n \in {nA, nB} |-> IF n = nA THEN BoxesTwo ELSE BoxesLong]),
    SceneDir(TRUE, TRUE, TRUE,
             [n \in {nA, nB, nS} |-> BigImage],
             [n \in {nA} |-> BoxesShort]),
    SceneDir(TRUE, TRUE, TRUE,
             [n \in {nB, nD} |-> BigImage],
             [n \in {nB, nD} |-> BoxesTwo]) }

OfficeProfiles ==
  { AbsentScene,
    SceneDir(TRUE, TRUE, FALSE, NoFiles, NoAnnotations),
    SceneDir(TRUE, TRUE, TRUE,
             [n \in {nC, nD, nE} |-> BigImage],
             [n \in {nC, nD} |-> IF n = nC THEN BoxesTwo ELSE BoxesNone]),
    SceneDir(TRUE, TRUE, TRUE, [n \in {nC} |-> SmallImage], NoAnnotations) }

\* a scene of the built-in lists when the dataset is installed
InstalledScene(s) ==
  IF s = Office_001_1
  THEN SceneDir(TRUE, TRUE, TRUE, [n \in {nF} |-> BigImage],
                [n \in {nF} |-> BoxesTwo])
  ELSE IF s = Home_001_1
  THEN SceneDir(TRUE, TRUE, TRUE, [n \in {nG} |-> BigImage],
                [n \in {nG} |-> BoxesLong])
  ELSE SceneDir(TRUE, TRUE, TRUE, NoFiles, NoAnnotations)

DefaultScenes == Range(default_train_list) \cup Range(default_test_list)
AllScenes == DefaultScenes \cup {Home_420_0, Office_420_0}

Tree(h, o, installed) ==
  [s \in AllScenes |->
     IF s = Home_420_0 THEN h
     ELSE IF s = Office_420_0 THEN o
     ELSE IF installed THEN InstalledScene(s) ELSE AbsentScene]

\* the trees construction and item access are run against: every pair of
\* extra scenes without the built-in scenes, and the installed built-in
\* scenes alone or beside one extra scene
Trees ==
  {Tree(h, o, FALSE) : h \in HomeProfiles, o \in OfficeProfiles}
    \cup {Tree(AbsentScene, o, TRUE) : o \in OfficeProfiles}

\* the scene directory at root/scene; a name with no directory is absent
Lookup(scene) == IF scene \in DOMAIN fs THEN fs[scene] ELSE AbsentScene

(* ------------------------------ images --------------------------------- *)
\* A pixel array is a window on a source array: rows r0..r1-1 and columns
\* c0..c1-1 of the source src, with ch channels; slicing narrows the window.
Array(src, shape) ==
  [src |-> src, r0 |-> 0, r1 |-> shape[1], c0 |-> 0, c1 |-> shape[2],
   ch |-> shape[3]]

Height(img) == img.r1 - img.r0
Width(img) == img.c1 - img.c0
Shape(img) == <<Height(img), Width(img), img.ch>>

\* the source pixel that element [r, c, :] of a pixel array shows
Pixel(img, r, c) == <<img.src, img.r0 + r, img.c0 + c>>

\* np.asarray(Image.open(root/scene/jpg_rgb/name))
ImageOpen(scene, name) == Array(<<scene, name>>, Lookup(scene).images[name])

\* a variant that slices rows by the x bounds and columns by the y bounds
CropTransposed(img, y0, y1, x0, x1) ==
  LET rs == SliceIndices(x0, x1, Height(img))
      cs == SliceIndices(y0, y1, Width(img))
  IN  [src |-> img.src,
       r0 |-> img.r0 + rs[1], r1 |-> img.r0 + Max(rs[1], rs[2]),
       c0 |-> img.c0 + cs[1], c1 |-> img.c0 + Max(cs[1], cs[2]),
       ch |-> img.ch]

\* img[y0:y1, x0:x1, :]
Crop(img, y0, y1, x0, x1) ==
  LET rs == SliceIndices(y0, y1, Height(img))
      cs == SliceIndices(x0, x1, Width(img))
  IN  [src |-> img.src,
       r0 |-> img.r0 + rs[1], r1 |-> img.r0 + Max(rs[1], rs[2]),
       c0 |-> img.c0 + cs[1], c1 |-> img.c0 + Max(cs[1], cs[2]),
       ch |-> img.ch]

(* ------------------------ caller's transforms -------------------------- *)
\* the fixed array the "constant" image transform returns; its source is
\* no file of the tree
ConstantArray == Array(<<<<"constant">>, <<"array">>>>, <<30, 30, 3>>)

\* the transform argument: None or a function from image to image
Transforms == {None, "constant"}
\* a variant that drops the transform's return value
ApplyTransformDropped(t, img) == img

ApplyTransform(t, img) == IF t = "constant" THEN ConstantArray ELSE img

RECURSIVE Reverse(_)
Reverse(s) == IF s = <<>> THEN <<>> ELSE Reverse(Tail(s)) \o <<Head(s)>>

\* the target_transform argument: None or a function from target to target
TargetTransforms == {None, "reversed"}
ApplyTargetTransform(t, target) ==
  IF t = "reversed" THEN Reverse(target) ELSE target

(* ---------------------------- AVD.__init__ ----------------------------- *)
\* the loop of _check_integrity: False at the first scene that fails
RECURSIVE CheckScenes(_)
CheckScenes(scenes) ==
  IF scenes = <<>> THEN TRUE
  ELSE IF ~(/\ Lookup(Head(scenes)).scene_dir
            /\ Lookup(Head(scenes)).images_dir
            /\ Lookup(Head(scenes)).ann_file)
       THEN FALSE
       ELSE CheckScenes(Tail(scenes))

\* a variant that checks the first scene of the list only
check_integrity_first(scenes) ==
  scenes = <<>> \/ CheckScenes(<<Head(scenes)>>)

check_integrity(scenes) == CheckScenes(scenes)

\* os.listdir(root/scene/jpg_rgb): the entries, in an arbitrary order
ListDir(scene) ==
  LET entries == DOMAIN Lookup(scene).images
  IN  {l \in [1..Cardinality(entries) -> entries] : Range(l) = entries}

\* one listing per scene of the list, in list order
RECURSIVE Listings(_)
Listings(scenes) ==
  IF scenes = <<>> THEN {<<>>}
  ELSE {<<l>> \o ls : l \in ListDir(Head(scenes)), ls \in Listings(Tail(scenes))}

\* scene_list after the defaults are resolved
EffectiveSceneList(tr, sl) ==
  IF sl.none THEN (IF tr THEN default_train_list ELSE default_test_list)
  ELSE sl.list

\* a variant that sorts each scene's listing on its own
RECURSIVE BuildIndexPerScene(_)
BuildIndexPerScene(listings) ==
  IF listings = <<>> THEN <<>>
  ELSE ListSort(Head(listings)) \o BuildIndexPerScene(Tail(listings))

\* image_names after the listings are gathered (extend) and sorted
BuildIndex(listings) == ListSort(Concat(listings))

\* no call of __getitem__ yet; an unset string or list is shown empty
NoResult == [index |-> 0, kind |-> None, img |-> <<>>, target |-> <<>>,
             image_name |-> <<>>, scene_name |-> <<>>]
NoCalls == [transform |-> 0, target_transform |-> 0]

AVD_init(tr, tf, ttf, sl, cl) ==
  /\ train' = tr
  /\ transform' = tf
  /\ target_transform' = ttf
  /\ classification' = cl
  /\ scene_list' = EffectiveSceneList(tr, sl)
  /\ IF ~check_integrity(EffectiveSceneList(tr, sl))
     THEN /\ pc' = "RuntimeError"
          /\ image_names' = <<>>
          /\ listdir_calls' = <<>>
     ELSE /\ pc' = "constructed"
          /\ listdir_calls' = EffectiveSceneList(tr, sl)
          /\ \E ls \in Listings(EffectiveSceneList(tr, sl)) :
                image_names' = BuildIndex(ls)
  /\ result' = NoResult
  /\ calls' = NoCalls
  /\ length' = <<>>
  /\ UNCHANGED fs

\* the scene_list arguments construction is tried with: None, or a list
ListedScenes == {Home_420_0, Office_420_0}
SceneLists ==
  {[none |-> TRUE, list |-> <<>>]} \cup
  {[none |-> FALSE, list |-> l] :
     l \in UNION {[1..n -> ListedScenes] : n \in 0..MaxSceneListLen}}

(* --------------------------- AVD.__getitem__ --------------------------- *)
\* a variant whose slice starts one character early
SceneNameOffByOne(image_name) ==
  LET scene_type == IF PyIndex(image_name, 0) = "0" THEN Home ELSE Office
  IN  scene_type \o <<"_">> \o PySlice(image_name, 0, 3) \o <<"_">>
        \o <<PyIndex(image_name, 4)>>

\* the scene directory name built from an image name of 5 or more characters
SceneName(image_name) ==
  LET scene_type == IF PyIndex(image_name, 0) = "0" THEN Home ELSE Office
  IN  scene_type \o <<"_">> \o PySlice(image_name, 1, 4) \o <<"_">>
        \o <<PyIndex(image_name, 4)>>

\* a variant that answers an empty box list for a missing key
AnnotationOrEmpty(scene_name, image_name) ==
  IF image_name \in DOMAIN Lookup(scene_name).annotations
  THEN [found |-> TRUE, boxes |-> Lookup(scene_name).annotations[image_name]]
  ELSE [found |-> TRUE, boxes |-> <<>>]

\* annotations[image_name]['bounding_boxes'] of the scene's annotation file:
\* a KeyError when the mapping has no such key
AnnotationOf(scene_name, image_name) ==
  IF image_name \in DOMAIN Lookup(scene_name).annotations
  THEN [found |-> TRUE, boxes |-> Lookup(scene_name).annotations[image_name]]
  ELSE [found |-> FALSE, boxes |-> <<>>]

Raise(index, kind, name, scene, tcalls, ttcalls) ==
  [index |-> index, kind |-> kind, img |-> <<>>, target |-> <<>>,
   image_name |-> name, scene_name |-> scene,
   transform_calls |-> tcalls, target_transform_calls |-> ttcalls]

\* the classification branch: one crop and one id per box, in box order
CropImages(img, target) ==
  [k \in 1..Len(target) |->
     Crop(img, target[k][2], target[k][4], target[k][1], target[k][3])]
BoxIds(target) == [k \in 1..Len(target) |-> target[k][5]]

\* what one call of __getitem__(index) does: the exception it raises or the
\* pair it returns, and how often it called each transform
GetItem(index) ==
  IF ~PyIndexOk(image_names, index)
  THEN Raise(index, "IndexError", <<>>, <<>>, 0, 0)
  ELSE
  LET image_name == PyIndex(image_names, index) IN
  IF ~PyIndexOk(image_name, 4)
  THEN Raise(index, "IndexError", image_name, <<>>, 0, 0)
  ELSE
  LET scene_name == SceneName(image_name) IN
  IF image_name \notin DOMAIN Lookup(scene_name).images
  THEN Raise(index, "OSError", image_name, scene_name, 0, 0)
  ELSE IF ~Lookup(scene_name).ann_file
  THEN Raise(index, "OSError", image_name, scene_name, 0, 0)
  ELSE IF ~AnnotationOf(scene_name, image_name).found
  THEN Raise(index, "KeyError", image_name, scene_name, 0, 0)
  ELSE
  LET loaded == ImageOpen(scene_name, image_name)
      boxes == AnnotationOf(scene_name, image_name).boxes
      tcalls == IF transform # None THEN 1 ELSE 0
      ttcalls == IF target_transform # None THEN 1 ELSE 0
      img == IF transform # None THEN ApplyTransform(transform, loaded)
             ELSE loaded
      target == IF target_transform # None
                THEN ApplyTargetTransform(target_transform, boxes)
                ELSE boxes
  IN
  IF ~classification
  THEN [index |-> index, kind |-> "ok", img |-> img, target |-> target,
        image_name |-> image_name, scene_name |-> scene_name,
        transform_calls |-> tcalls, target_transform_calls |-> ttcalls]
  ELSE IF \E k \in 1..Len(target) : ~PyIndexOk(target[k], 4)
  THEN Raise(index, "IndexError", image_name, scene_name, tcalls, ttcalls)
  ELSE [index |-> index, kind |-> "ok",
        img |-> CropImages(img, target), target |-> BoxIds(target),
        image_name |-> image_name, scene_name |-> scene_name,
        transform_calls |-> tcalls, target_transform_calls |-> ttcalls]

ResultOf(out) ==
  [index |-> out.index, kind |-> out.kind, img |-> out.img,
   target |-> out.target, image_name |-> out.image_name,
   scene_name |-> out.scene_name]

\* a variant that removes the selected name from the index (pop)
AVD_getitem_pop(index) ==
  /\ pc = "constructed"
  /\ LET out == GetItem(index)
     IN  /\ result' = ResultOf(out)
         /\ calls' = [transform |-> out.transform_calls,
                      target_transform |-> out.target_transform_calls]
  /\ image_names' =
       IF PyIndexOk(image_names, index)
       THEN [k \in 1..(Len(image_names) - 1) |->
               IF k < (index % Len(image_names)) + 1
               THEN image_names[k] ELSE image_names[k + 1]]
       ELSE image_names
  /\ UNCHANGED <<fs, pc, scene_list, train, transform, target_transform,
                 classification, listdir_calls, length, prev>>

AVD_getitem(index) ==
  /\ pc = "constructed"
  /\ LET out == GetItem(index)
     IN  /\ result' = ResultOf(out)
         /\ calls' = [transform |-> out.transform_calls,
                      target_transform |-> out.target_transform_calls]
  /\ UNCHANGED <<fs, pc, scene_list, train, transform, target_transform,
                 classification, image_names, listdir_calls, length, prev>>

(* ----------------------------- AVD.__len__ ----------------------------- *)
\* length holds the value the last call returned, <<>> before any call
AVD_len ==
  /\ pc = "constructed"
  /\ length' = <<Len(image_names)>>
  /\ UNCHANGED <<fs, pc, scene_list, train, transform, target_transform,
                 classification, image_names, listdir_calls, result, calls,
                 prev>>

(* --------------------------- specifications ---------------------------- *)
\* no adapter: nothing constructed yet
NoAdapter == [pc |-> "start", scene_list |-> <<>>, image_names |-> <<>>]

Init ==
  /\ fs \in Trees
  /\ pc = "start"
  /\ scene_list = <<>>
  /\ train = None
  /\ transform = None
  /\ target_transform = None
  /\ classification = None
  /\ image_names = <<>>
  /\ listdir_calls = <<>>
  /\ result = NoResult
  /\ calls = NoCalls
  /\ length = <<>>
  /\ prev = NoAdapter

\* AVD(root, train, transform, target_transform, scene_list, classification);
\* train, which has an effect only without a scene list, is left at its
\* default when a scene list is given
Construct ==
  /\ pc = "start"
  /\ \E tr \in BOOLEAN, tf \in Transforms, ttf \in TargetTransforms,
        sl \in SceneLists, cl \in BOOLEAN :
        /\ sl.none \/ tr
        /\ AVD_init(tr, tf, ttf, sl, cl)
  /\ UNCHANGED prev

\* the indices item access is tried with: every index of the sequence, from
\* either end, and IndexSlack more on both sides
Indices == (0 - Len(image_names) - IndexSlack)..(Len(image_names) - 1 + IndexSlack)

Get == pc = "constructed" /\ \E index \in Indices : AVD_getitem(index)

Next == Construct \/ Get \/ AVD_len

Spec == Init /\ [][Next]_vars

\* AVD(root, train=..., scene_list=...) with the other arguments defaulted
ConstructPlain ==
  /\ pc = "start"
  /\ \E tr \in BOOLEAN, sl \in SceneLists :
        /\ sl.none \/ tr
        /\ AVD_init(tr, None, None, sl, FALSE)
  /\ UNCHANGED prev

\* a second adapter constructed over the same tree; prev keeps the first
ConstructAgain ==
  /\ pc # "start"
  /\ prev.pc = "start"
  /\ prev' = [pc |-> pc, scene_list |-> scene_list, image_names |-> image_names]
  /\ \E tr \in BOOLEAN, sl \in SceneLists :
        /\ sl.none \/ tr
        /\ AVD_init(tr, None, None, sl, FALSE)

NextTwice == ConstructPlain \/ ConstructAgain

SpecTwice == Init /\ [][NextTwice]_vars

(* ------------------------------ properties ----------------------------- *)
\* a scene that has its directory, its jpg_rgb directory and its
\* annotations.json regular file
SceneComplete(s) ==
  Lookup(s).scene_dir /\ Lookup(s).images_dir /\ Lookup(s).ann_file

RECURSIVE FileCount(_)
FileCount(scenes) ==
  IF scenes = <<>> THEN 0
  ELSE Cardinality(DOMAIN Lookup(Head(scenes)).images) + FileCount(Tail(scenes))

\* the name an in-range index selects, counted from the front
NameAt(i) == image_names[(i % Len(image_names)) + 1]

\* C1: when every scene of the effective scene list is complete (a list
\* that repeats a scene and the empty list included), construction succeeds
\* and length() is the number of entries of the image subdirectories summed
\* over the scenes of the list, a repeated scene counted at each occurrence.
C1_LengthIsFileCount ==
  (pc # "start" /\ \A i \in 1..Len(scene_list) : SceneComplete(scene_list[i]))
    => /\ pc = "constructed"
       /\ Len(image_names) = FileCount(scene_list)
       /\ length # <<>> => length = <<FileCount(scene_list)>>

C1_Witness ==
  /\ pc = "constructed"
  /\ Len(scene_list) = 2
  /\ scene_list[1] = scene_list[2]
  /\ length = <<6>>

\* C2: when some scene of the effective scene list lacks its directory, its
\* image subdirectory or its annotation file, construction raises the
\* dataset-not-found error, no directory has been listed, no image index is
\* built and no adapter results, wherever the failing scene stands.
C2_IncompleteSceneFails ==
  (pc # "start" /\ \E i \in 1..Len(scene_list) : ~SceneComplete(scene_list[i]))
    => /\ pc = "RuntimeError"
       /\ listdir_calls = <<>>
       /\ image_names = <<>>

C2_Witness ==
  /\ pc = "RuntimeError"
  /\ Len(scene_list) = 2
  /\ SceneComplete(scene_list[1])
  /\ DOMAIN Lookup(scene_list[1]).images # {}
  /\ ~SceneComplete(scene_list[2])

\* C3 as claimed: get(i) raises IndexOutOfRange for every i < 0 and every
\* i >= length(), and only indices in [0, length) return a pair.
C3_NegativeIndexRaises ==
  result.kind # None =>
    /\ (result.index < 0 \/ result.index >= Len(image_names))
         => result.kind = "IndexError"
    /\ result.kind = "ok"
         => (result.index >= 0 /\ result.index < Len(image_names))

\* C3 amended: get(i) raises IndexOutOfRange and returns no pair for every
\* i >= length() and every i < -length(); only indices in
\* [-length(), length()) return a pair, and an index i with
\* -length() <= i < 0 selects the image name at position length() + i.
C3_OutOfRangeRaises ==
  result.kind # None =>
    /\ (result.index < 0 - Len(image_names) \/ result.index >= Len(image_names))
         => (result.kind = "IndexError" /\ result.image_name = <<>>)
    /\ result.kind = "ok"
         => /\ result.index >= 0 - Len(image_names)
            /\ result.index < Len(image_names)
    /\ (result.index >= 0 - Len(image_names) /\ result.index < 0)
         => result.image_name = image_names[Len(image_names) + result.index + 1]
    /\ (result.index >= 0 /\ result.index < Len(image_names))
         => result.image_name = image_names[result.index + 1]

C3_Witness ==
  /\ result.kind = "ok"
  /\ result.index = -1
  /\ Len(image_names) >= 2
  /\ result.image_name = image_names[Len(image_names)]

\* C4: get(i) for an in-range index whose image loads from the scene derived
\* from its name and whose name is not a key of that scene's parsed
\* annotation mapping raises AnnotationMissing: no pair is returned and
\* neither transform has been applied.
C4_AnnotationMissing ==
  (/\ result.kind # None
   /\ result.index >= 0 /\ result.index < Len(image_names)
   /\ Len(NameAt(result.index)) >= 5
   /\ NameAt(result.index) \in DOMAIN Lookup(SceneName(NameAt(result.index))).images
   /\ Lookup(SceneName(NameAt(result.index))).ann_file
   /\ NameAt(result.index)
        \notin DOMAIN Lookup(SceneName(NameAt(result.index))).annotations)
    => /\ result.kind = "KeyError"
       /\ calls.transform = 0
       /\ calls.target_transform = 0

C4_Witness ==
  /\ result.kind = "KeyError"
  /\ result.index >= 0
  /\ transform # None
  /\ target_transform # None
  /\ calls = NoCalls

\* C5: for an image name of at least 5 characters the derived scene is
\* <Type>_<characters 1..3>_<character 4>, Type being Home exactly when
\* character 0 is '0' and Office otherwise; names that agree on characters
\* 0 to 4 derive the same scene; "0420012345" derives "Home_420_0" and
\* "1420012345" derives "Office_420_0".
C5_SceneDerivation ==
  /\ (result.kind # None /\ Len(result.image_name) >= 5) =>
       LET n == result.image_name
           s == result.scene_name
           t == IF n[1] = "0" THEN 4 ELSE 6
       IN  /\ Len(s) = t + 6
           /\ (n[1] = "0") => SubSeq(s, 1, t) = <<"H", "o", "m", "e">>
           /\ (n[1] # "0") => SubSeq(s, 1, t) = <<"O", "f", "f", "i", "c", "e">>
           /\ SubSeq(s, t + 1, t + 6) = <<"_", n[2], n[3], n[4], "_", n[5]>>
           /\ (n = nA) => s = Home_420_0
           /\ (n = nC) => s = Office_420_0
  /\ \A a \in Range(image_names), b \in Range(image_names) :
       (Len(a) >= 5 /\ Len(b) >= 5 /\ SubSeq(a, 1, 5) = SubSeq(b, 1, 5))
         => SceneName(a) = SceneName(b)

C5_Witness ==
  /\ result.image_name = nD
  /\ result.scene_name = Office_420_0
  /\ nA \in Range(image_names)
  /\ nB \in Range(image_names)

\* the image and the target of the returned name before any cropping: the
\* stored image or what the image transform makes of it, the stored boxes
\* or what the target transform makes of them
LoadedImage == ImageOpen(result.scene_name, result.image_name)
LoadedBoxes == Lookup(result.scene_name).annotations[result.image_name]
PreCropImage == IF transform = "constant" THEN ConstantArray ELSE LoadedImage
PreCropTarget ==
  IF target_transform = "reversed" THEN Reverse(LoadedBoxes) ELSE LoadedBoxes

\* rows (columns) of an array of n rows (columns) that lie in [lo, hi)
Within(lo, hi, n) == {x \in 0..(n - 1) : lo <= x /\ x < hi}
Least(S) == CHOOSE x \in S : \A y \in S : x <= y

\* crop shows exactly rows [box[1], box[3]) and columns [box[0], box[2]) of
\* img: it has that many rows and columns, img's channels, and its first
\* element is img's element at the least such row and column
IsBoxOf(crop, img, box) ==
  LET rows == Within(box[2], box[4], Height(img))
      cols == Within(box[1], box[3], Width(img))
  IN  /\ Shape(crop) = <<Cardinality(rows), Cardinality(cols), img.ch>>
      /\ crop.src = img.src
      /\ (rows # {} /\ cols # {})
           => Pixel(crop, 0, 0) = Pixel(img, Least(rows), Least(cols))

\* C6: with classification enabled a successful get(i) returns an image
\* list and an id list with one entry per box of the (possibly transformed)
\* target, in box order: the k-th image is rows [box[1], box[3]) and columns
\* [box[0], box[2]) of the (possibly transformed) image and the k-th id is
\* box[4]; for the target [[10,20,50,60,3],[0,0,5,5,7]] the crops have
\* shapes (40,40,C) and (5,5,C) and the returned target is [3,7].
C6_ClassificationCrops ==
  (result.kind = "ok" /\ classification) =>
    /\ Len(result.img) = Len(PreCropTarget)
    /\ Len(result.target) = Len(PreCropTarget)
    /\ \A k \in 1..Len(PreCropTarget) :
         /\ IsBoxOf(result.img[k], PreCropImage, PreCropTarget[k])
         /\ result.target[k] = PreCropTarget[k][5]
    /\ (PreCropTarget = BoxesTwo /\ Height(PreCropImage) >= 60
          /\ Width(PreCropImage) >= 50)
         => /\ Shape(result.img[1]) = <<40, 40, PreCropImage.ch>>
            /\ Shape(result.img[2]) = <<5, 5, PreCropImage.ch>>
            /\ result.target = <<3, 7>>

C6_Witness ==
  /\ result.kind = "ok"
  /\ classification
  /\ result.target = <<3, 7>>
  /\ Len(result.img) = 2
  /\ Shape(result.img[1]) = <<40, 40, 3>>
  /\ Shape(result.img[2]) = <<5, 5, 3>>

\* C7: with an image transform that returns a fixed constant array, every
\* image a successful get(i) returns with classification disabled equals
\* that constant whatever the file holds, and the returned target is what it
\* is without the image transform: the image transform acts on the loaded
\* image, the target transform on the loaded boxes, each independently.
C7_TransformsIndependent ==
  (result.kind = "ok" /\ ~classification) =>
    /\ (transform = "constant") => result.img = ConstantArray
    /\ (transform = None) => result.img = LoadedImage
    /\ (target_transform = None) => result.target = LoadedBoxes
    /\ (target_transform = "reversed") => result.target = Reverse(LoadedBoxes)
    /\ calls.transform = (IF transform = None THEN 0 ELSE 1)
    /\ calls.target_transform = (IF target_transform = None THEN 0 ELSE 1)

C7_Witness ==
  /\ result.kind = "ok"
  /\ ~classification
  /\ transform = "constant"
  /\ target_transform = None
  /\ result.img = ConstantArray
  /\ result.img # LoadedImage
  /\ result.target = BoxesTwo

\* ascending lexicographic order
IsSorted(names) ==
  \A i \in 1..Len(names), j \in 1..Len(names) :
    i < j => ~StrLess(names[j], names[i])

\* C8: two constructions from the same scene list over the same directory
\* contents yield the same index-to-name mapping, whatever order each
\* directory listing returns its entries in, and the sequence is in
\* ascending lexicographic order.
C8_IndexStable ==
  /\ (pc = "constructed" /\ prev.pc = "constructed"
        /\ prev.scene_list = scene_list)
       => prev.image_names = image_names
  /\ (pc = "constructed") => IsSorted(image_names)

C8_Witness ==
  /\ pc = "constructed"
  /\ prev.pc = "constructed"
  /\ prev.scene_list = scene_list
  /\ Len(scene_list) = 2
  /\ scene_list[1] # scene_list[2]
  /\ Len(image_names) >= 5

\* the scene item access derives from the name at a position, <<>> for a
\* name too short to derive one
SceneAt(i) == IF Len(image_names[i]) >= 5 THEN SceneName(image_names[i]) ELSE <<>>

C10_AccessIsReadOnly ==
  [][(pc = "constructed")
       => /\ image_names' = image_names
          /\ scene_list' = scene_list
          /\ (length # <<>>) => (length' = length)
          /\ length' \in {<<>>, <<Len(image_names)>>}]_vars

C10_Witness ==
  /\ pc = "constructed"
  /\ classification
  /\ result.kind = "IndexError"
  /\ result.image_name # <<>>
  /\ calls.transform = 1
  /\ length = <<Len(image_names)>>
  /\ Len(image_names) >= 2

====
